---- MODULE Spec2Model ----
(***************************************************************************)
(* Financial Report Generator: the enterprise script's lazy pipeline        *)
(* (stream_csv / stream_json -> pipeline_dedupe -> format_table) and the    *)
(* plain script's eager loader, as one state machine.  A run is one         *)
(* invocation of one script on one file.                                    *)
(***************************************************************************)
EXTENDS Integers, Sequences, FiniteSets, TLC

\* ---------------------------------------------------------------- bounds
\* Largest number of rows of a CSV file, the header row included.
MaxRows == 3
\* Largest number of items of a JSON list.
MaxItems == 3
\* Rows held by one decode chunk of the text layer (the chunk open(...).read
\* decodes at once), scaled down from bytes to rows.
ChunkRows == 2

\* ---------------------------------------------------------------- floats
\* A Python float: a finite number, nan or +inf.  Absent stands for None.
Fin(n) == [k |-> "fin", v |-> n]
NaN == [k |-> "nan", v |-> 0]
Inf == [k |-> "inf", v |-> 0]
Absent == [k |-> "none", v |-> 0]

\* float.__eq__: nan equals nothing, itself included.
FloatEq(a, b) == a.k # "nan" /\ b.k # "nan" /\ a = b

\* float.__lt__ as used by rec.profit < 0.
FLess(a, b) == a.k = "fin" /\ b.k = "fin" /\ a.v < b.v

\* float.__add__ as used by total_revenue += rec.revenue.
FAdd(a, b) ==
    IF a.k = "nan" \/ b.k = "nan" THEN NaN
    ELSE IF a.k = "inf" \/ b.k = "inf" THEN Inf
    ELSE Fin(a.v + b.v)

\* ---------------------------------------------------------------- raw values
\* A raw field: a string (CSV cell or JSON string), a JSON integer literal
\* or None (JSON null, or dict.get of a missing key).
Str(s) == [ty |-> "str", txt |-> s]
Int_(s) == [ty |-> "int", txt |-> s]
Null == [ty |-> "null", txt |-> ""]

\* The result of float(x): a value, or the exception it raises.
Ok(f) == [err |-> "none", val |-> f]
Raise(e) == [err |-> e, val |-> Absent]

\* float() of Python on the literals the model uses.  Strings are stripped
\* of blanks and read as decimal literals, "nan" and "inf" are accepted; an
\* integer beyond the float range raises OverflowError; None raises TypeError.
PyFloat(x) ==
    CASE x.ty = "null" -> Raise("TypeError")
      [] x.ty = "int" /\ x.txt = "BIG" -> Raise("OverflowError")
      [] x.txt \in {"10", "10.0", " 10 "} -> Ok(Fin(10))
      [] x.txt \in {"1", " 1 ", "1.0"} -> Ok(Fin(1))
      [] x.txt \in {"0", "0.0"} -> Ok(Fin(0))
      [] x.txt = "5" -> Ok(Fin(5))
      [] x.txt = "-3" -> Ok(Fin(0 - 3))
      [] x.txt \in {"nan", "NaN"} -> Ok(NaN)
      [] x.txt \in {"inf", "1e999"} -> Ok(Inf)
      [] OTHER -> Raise("ValueError")

\* ---------------------------------------------------------------- records
FinancialRecord(rev, prof) == [revenue |-> rev, profit |-> prof]
NoRecord == FinancialRecord(Absent, Absent)

\* The dataclass __eq__: field by field with float equality.
RecEq(a, b) == FloatEq(a.revenue, b.revenue) /\ FloatEq(a.profit, b.profit)

\* FinancialRecord.margin: None when revenue == 0, else profit / revenue
\* (kept as the unreduced quotient).
NoMargin == [def |-> FALSE, num |-> Absent, den |-> Absent]
Margin(rec) ==
    IF FloatEq(rec.revenue, Fin(0)) THEN NoMargin
    ELSE [def |-> TRUE, num |-> rec.profit, den |-> rec.revenue]

\* ---------------------------------------------------------------- logging
\* logging.basicConfig(level=WARNING): info records are not emitted.
Diag(level, msg) == [level |-> level, msg |-> msg]
Emit(lg, level, msg) ==
    IF level \in {"WARNING", "ERROR", "CRITICAL"} THEN Append(lg, Diag(level, msg))
    ELSE lg

\* ---------------------------------------------------------------- validator
\* validate_record: float(raw_revenue), then float(raw_profit); ValueError
\* and TypeError are caught (warning, None); any other exception escapes.
Result(rec, diag, raised) == [out |-> rec, diag |-> diag, raised |-> raised]
validate_record(raw_revenue, raw_profit) ==
    LET rev == PyFloat(raw_revenue)
        prof == PyFloat(raw_profit)
        first == IF rev.err # "none" THEN rev.err ELSE prof.err
    IN  IF first = "none" THEN Result(FinancialRecord(rev.val, prof.val), FALSE, "none")
        ELSE IF first \in {"ValueError", "TypeError"} THEN Result(NoRecord, TRUE, "none")
        ELSE Result(NoRecord, FALSE, first)

Call(r, p, res) == [rev |-> r, prof |-> p, out |-> res.out, diag |-> res.diag,
                    raised |-> res.raised]

\* ---------------------------------------------------------------- paths
PathCsv == <<"d", ".", "c", "s", "v">>
PathJson == <<"d", ".", "j", "s", "o", "n">>
PathTxt == <<"d", ".", "t", "x", "t">>
PathUpper == <<"d", ".", "C", "S", "V">>
PathBare == <<"c", "s", "v">>
PathEmpty == << >>
Paths == {PathCsv, PathJson, PathTxt, PathUpper, PathBare, PathEmpty}
DotCsv == <<".", "c", "s", "v">>
DotJson == <<".", "j", "s", "o", "n">>

\* str.endswith
EndsWith(s, suf) ==
    Len(s) >= Len(suf) /\ SubSeq(s, Len(s) - Len(suf) + 1, Len(s)) = suf

\* ---------------------------------------------------------------- inputs
\* The rows csv.reader makes of a file: each a list of cells.
CsvRowSet ==
    { <<"revenue", "profit">>, <<"10", "1">>, <<"10.0", " 1 ">>, <<"0", "5">>,
      <<"nan", "1">>, <<"7">> }

SeqsUpTo(S, n) == UNION { [1..m -> S] : m \in 0..n }

\* A JSON item: an object (keys with values), an array or a scalar.
Item(ty, keys, vals) == [ty |-> ty, keys |-> keys, vals |-> vals]
JsonItemSet ==
    { Item("dict", <<"revenue", "profit">>, <<Int_("10"), Int_("1")>>),
      Item("dict", <<"income", "net">>, <<Int_("10"), Int_("1")>>),
      Item("dict", <<"revenue", "profit">>, <<Int_("0"), Int_("5")>>),
      Item("dict", <<"revenue", "profit">>, <<Int_("10"), Str("x")>>),
      Item("dict", <<"revenue">>, <<Int_("10")>>),
      Item("dict", <<"revenue", "profit">>, <<Int_("BIG"), Int_("1")>>),
      Item("list", << >>, <<Str("10.0"), Int_("1")>>),
      Item("list", << >>, <<Int_("10")>>),
      Item("scalar", << >>, <<Int_("5")>>) }

\* A JSON file: bytes that are not UTF-8, text that is no JSON document, a
\* document whose top-level value is an object, or a top-level array.
Doc(top, items) == [top |-> top, items |-> items]
JsonDocSet ==
    { Doc("undecodable", << >>), Doc("malformed", << >>), Doc("object", << >>) }
    \cup { Doc("list", s) : s \in SeqsUpTo(JsonItemSet, MaxItems) }

KeyPairs == { <<"revenue", "profit">>, <<"income", "net">> }

\* key in dict
HasKey(item, key) == \E i \in 1..Len(item.keys) : item.keys[i] = key

\* dict.get(key): the value, or None when the key is missing.
Get(item, key) ==
    IF HasKey(item, key)
    THEN item.vals[CHOOSE i \in 1..Len(item.keys) : item.keys[i] = key]
    ELSE Null

\* ---------------------------------------------------------------- state
VARIABLES
    variant,     \* which script runs: "enterprise" or "plain"
    path,        \* args.file
    fileStatus,  \* "ok", "missing" or "denied"
    csvRows,     \* the file's rows as csv.reader would split them
    badRow,      \* row holding the first invalid UTF-8 byte, 0 if none
    jsonDoc,     \* the file read as a JSON document
    keys,        \* <<args.rev_key, args.prof_key>>
    pc,          \* where control is
    stream,      \* the source generator main selected: "none", "csv", "json"
    srcState,    \* the source generator's position in its body
    encoding,    \* what detect_encoding returned, "none" before
    items,       \* stream_json's materialised list
    pos,         \* rows (items) the source has consumed
    cur,         \* the record being handed downstream
    seen,        \* pipeline_dedupe's seen records, in insertion order
    dups,        \* duplicates_count
    count,       \* format_table's count
    total,       \* format_table's total_revenue
    data,        \* the plain script's loaded list
    stdout,      \* lines printed to standard output
    log,         \* diagnostics emitted (logging sink, or stderr of plain)
    exitStatus,  \* -1 while running, else the process's exit status
    raised,      \* the exception that ended the source, "none" otherwise
    uncaught,    \* TRUE when an exception reached the interpreter top level
    srcOut,      \* history: records the source has yielded
    calls,       \* history: validator calls with their results
    requests     \* history: records format_table has asked for

vars == <<variant, path, fileStatus, csvRows, badRow, jsonDoc, keys, pc, stream,
          srcState, encoding, items, pos, cur, seen, dups, count, total, data,
          stdout, log, exitStatus, raised, uncaught, srcOut, calls, requests>>

inputs == <<variant, path, fileStatus, csvRows, badRow, jsonDoc, keys>>

\* A printed line: its kind and, for a data row, the record, its margin
\* and whether the profit is printed in red; for the totals line, the
\* row count and the total revenue.
Line(kind, rec, margin, n, red) ==
    [kind |-> kind, rec |-> rec, margin |-> margin, n |-> n, red |-> red]
TextLine(kind) == Line(kind, NoRecord, NoMargin, 0, FALSE)

\* The state after the interpreter has parsed the arguments.  The content of
\* the file matters only to the reader the path selects.
Init ==
    /\ variant \in {"enterprise", "plain"}
    /\ path \in Paths
    /\ fileStatus \in {"ok", "missing", "denied"}
    /\ keys \in KeyPairs
    /\ IF EndsWith(path, DotCsv) /\ fileStatus = "ok"
       THEN /\ csvRows \in SeqsUpTo(CsvRowSet, MaxRows)
            /\ badRow \in 0..Len(csvRows)
       ELSE csvRows = << >> /\ badRow = 0
    /\ IF EndsWith(path, DotJson) /\ fileStatus = "ok"
       THEN jsonDoc \in JsonDocSet
       ELSE jsonDoc = Doc("list", << >>)
    /\ (EndsWith(path, DotJson) \/ keys = <<"revenue", "profit">>)
    /\ (EndsWith(path, DotCsv) \/ EndsWith(path, DotJson) \/ fileStatus = "ok")
    /\ pc = "main"
    /\ stream = "none"
    /\ srcState = "unstarted"
    /\ encoding = "none"
    /\ items = << >>
    /\ pos = 0
    /\ cur = NoRecord
    /\ seen = << >>
    /\ dups = 0
    /\ count = 0
    /\ total = Fin(0)
    /\ data = << >>
    /\ stdout = << >>
    /\ log = << >>
    /\ exitStatus = 0 - 1
    /\ raised = "none"
    /\ uncaught = FALSE
    /\ srcOut = << >>
    /\ calls = << >>
    /\ requests = 0

\* sys.exit(1) raised inside a generator: SystemExit unwinds through
\* pipeline_dedupe, format_table and main and ends the process.
Exit(status) == pc' = "exited" /\ exitStatus' = status

\* ---------------------------------------------------------------- main
\* main, step 1 and 2: select the source by extension and wrap it in
\* pipeline_dedupe.  Calling a generator function runs none of its body.
Main_Select ==
    /\ pc = "main" /\ variant = "enterprise"
    /\ IF EndsWith(path, DotCsv)
       THEN stream' = "csv" /\ pc' = "banner" /\ UNCHANGED <<log, exitStatus>>
       ELSE IF EndsWith(path, DotJson)
       THEN stream' = "json" /\ pc' = "banner" /\ UNCHANGED <<log, exitStatus>>
       ELSE /\ log' = Emit(log, "ERROR", "unsupported_extension")
            /\ Exit(1)
            /\ UNCHANGED stream
    /\ UNCHANGED <<inputs, srcState, encoding, items, pos, cur, seen, dups, count,
                   total, data, stdout, raised, uncaught, srcOut, calls, requests>>

\* main, step 3: print(f"Generating report for: ...").
Main_Banner ==
    /\ pc = "banner"
    /\ stdout' = Append(stdout, TextLine("banner"))
    /\ pc' = "ft_header"
    /\ UNCHANGED <<inputs, stream, srcState, encoding, items, pos, cur, seen, dups,
                   count, total, data, log, exitStatus, raised, uncaught, srcOut,
                   calls, requests>>

\* ---------------------------------------------------------------- format_table
\* The header and the rule under it, count = 0, total_revenue = 0.0.
FT_Header ==
    /\ pc = "ft_header"
    /\ stdout' = stdout \o <<TextLine("header"), TextLine("rule")>>
    /\ count' = 0
    /\ total' = Fin(0)
    /\ pc' = "ft_next"
    /\ UNCHANGED <<inputs, stream, srcState, encoding, items, pos, cur, seen, dups,
                   data, log, exitStatus, raised, uncaught, srcOut, calls, requests>>

\* for rec in records: ask pipeline_dedupe for the next record.
FT_Next ==
    /\ pc = "ft_next"
    /\ requests' = requests + 1
    /\ pc' = "dd_pull"
    /\ UNCHANGED <<inputs, stream, srcState, encoding, items, pos, cur, seen, dups,
                   count, total, data, stdout, log, exitStatus, raised, uncaught,
                   srcOut, calls>>

\* The loop body: count, total and the printed row.
FT_Got ==
    /\ pc = "ft_got"
    /\ count' = count + 1
    /\ total' = FAdd(total, cur.revenue)
    /\ stdout' = Append(stdout, Line("row", cur, Margin(cur), 0, FLess(cur.profit, Fin(0))))
    /\ cur' = NoRecord
    /\ pc' = "ft_next"
    /\ UNCHANGED <<inputs, stream, srcState, encoding, items, pos, seen, dups, data,
                   log, exitStatus, raised, uncaught, srcOut, calls, requests>>

\* The stream is exhausted: closing rule and totals, then main returns.
FT_End ==
    /\ pc = "ft_end"
    /\ stdout' = stdout \o <<TextLine("rule"),
                             Line("total", FinancialRecord(total, Absent), NoMargin, count,
                                  FALSE)>>
    /\ Exit(0)
    /\ UNCHANGED <<inputs, stream, srcState, encoding, items, pos, cur, seen, dups,
                   count, total, data, log, raised, uncaught, srcOut, calls, requests>>

\* ---------------------------------------------------------------- pipeline_dedupe
\* record in seen: set membership by the records' equality.
InSeen(record, s) == \E i \in 1..Len(s) : RecEq(s[i], record)

\* for record in iterator: ask the source for its next record.
DD_Pull ==
    /\ pc = "dd_pull"
    /\ pc' = "src"
    /\ UNCHANGED <<inputs, stream, srcState, encoding, items, pos, cur, seen, dups,
                   count, total, data, stdout, log, exitStatus, raised, uncaught,
                   srcOut, calls, requests>>

\* The loop body without seen.add(record).
DD_Got_NoAdd ==
    /\ pc = "dd_got"
    /\ IF InSeen(cur, seen)
       THEN dups' = dups + 1 /\ cur' = NoRecord /\ pc' = "dd_pull"
       ELSE pc' = "ft_got" /\ UNCHANGED <<dups, cur>>
    /\ UNCHANGED <<inputs, stream, srcState, encoding, items, pos, count, total,
                   data, stdout, log, exitStatus, raised, uncaught, srcOut, calls,
                   requests, seen>>

\* The loop body: a duplicate is counted and skipped, a new record is
\* remembered and yielded.
DD_Got ==
    /\ pc = "dd_got"
    /\ IF InSeen(cur, seen)
       THEN /\ dups' = dups + 1
            /\ cur' = NoRecord
            /\ pc' = "dd_pull"
            /\ UNCHANGED seen
       ELSE /\ seen' = Append(seen, cur)
            /\ pc' = "ft_got"
            /\ UNCHANGED <<dups, cur>>
    /\ UNCHANGED <<inputs, stream, srcState, encoding, items, pos, count, total,
                   data, stdout, log, exitStatus, raised, uncaught, srcOut, calls,
                   requests>>

\* The source is exhausted: the summary is logged at info level.
DD_End ==
    /\ pc = "dd_end"
    /\ log' = IF dups > 0 THEN Emit(log, "INFO", "duplicates_removed") ELSE log
    /\ pc' = "ft_end"
    /\ UNCHANGED <<inputs, stream, srcState, encoding, items, pos, cur, seen, dups,
                   count, total, data, stdout, exitStatus, raised, uncaught, srcOut,
                   calls, requests>>

\* ---------------------------------------------------------------- generators
\* A generator's body runs only while a next() call on it is pending.  The
\* eager variant lets the source run as soon as format_table is between rows.
SourceRuns_Eager == pc \in {"src", "ft_next"}
SourceRuns == pc = "src"

\* ---------------------------------------------------------------- stream_csv
\* The decode chunk a row lies in (rows are numbered from 1).
Chunk(i) == (i - 1) \div ChunkRows

\* detect_encoding, called outside stream_csv's try block.  An OSError of
\* open() is not a UnicodeDecodeError: it leaves detect_encoding and
\* stream_csv uncaught and ends the process with a traceback.
Csv_Detect ==
    /\ SourceRuns /\ stream = "csv" /\ srcState = "unstarted"
    /\ IF fileStatus # "ok"
       THEN /\ raised' = (IF fileStatus = "missing" THEN "FileNotFoundError"
                          ELSE "PermissionError")
            /\ uncaught' = TRUE
            /\ Exit(1)
            /\ UNCHANGED <<encoding, srcState, log>>
       ELSE /\ encoding' = (IF badRow # 0 /\ Chunk(badRow) = 0 THEN "latin-1"
                            ELSE "utf-8")
            /\ log' = (IF badRow # 0 /\ Chunk(badRow) = 0
                       THEN Emit(log, "INFO", "utf8_failed") ELSE log)
            /\ srcState' = "detected"
            /\ UNCHANGED <<pc, exitStatus, raised, uncaught>>
    /\ UNCHANGED <<inputs, stream, items, pos, cur, seen, dups, count, total, data,
                   stdout, srcOut, calls, requests>>

\* stream_csv without the next(reader, None) that skips the header.
Csv_Open_KeepHeader ==
    /\ SourceRuns /\ stream = "csv" /\ srcState = "detected"
    /\ \E gone \in BOOLEAN :
         IF gone
         THEN /\ raised' = "FileNotFoundError"
              /\ log' = Emit(log, "ERROR", "csv_failed")
              /\ Exit(1)
              /\ UNCHANGED <<srcState, pos>>
         ELSE /\ srcState' = "rows"
              /\ pos' = 0
              /\ UNCHANGED <<pc, exitStatus, raised, log>>
    /\ UNCHANGED <<inputs, stream, encoding, items, cur, seen, dups, count, total,
                   data, stdout, uncaught, srcOut, calls, requests>>

\* open(filepath, encoding=encoding) and next(reader, None).  The file may
\* have become unreadable since the probe; that OSError is caught by the
\* except Exception clause.
Csv_Open ==
    /\ SourceRuns /\ stream = "csv" /\ srcState = "detected"
    /\ \E gone \in BOOLEAN :
         IF gone
         THEN /\ raised' = "FileNotFoundError"
              /\ log' = Emit(log, "ERROR", "csv_failed")
              /\ Exit(1)
              /\ UNCHANGED <<srcState, pos>>
         ELSE /\ srcState' = "rows"
              /\ pos' = (IF Len(csvRows) > 0 THEN 1 ELSE 0)
              /\ UNCHANGED <<pc, exitStatus, raised, log>>
    /\ UNCHANGED <<inputs, stream, encoding, items, cur, seen, dups, count, total,
                   data, stdout, uncaught, srcOut, calls, requests>>

\* One turn of for line_num, row in enumerate(reader, start=2).
Csv_Row ==
    /\ SourceRuns /\ stream = "csv" /\ srcState = "rows"
    /\ IF pos >= Len(csvRows)
       THEN /\ srcState' = "done"
            /\ pc' = "dd_end"
            /\ UNCHANGED <<pos, cur, log, exitStatus, raised, srcOut, calls>>
       ELSE LET row == csvRows[pos + 1]
                res == validate_record(Str(row[1]), Str(row[2]))
            IN  IF encoding = "utf-8" /\ badRow # 0 /\ Chunk(pos + 1) = Chunk(badRow)
                THEN /\ raised' = "UnicodeDecodeError"
                     /\ log' = Emit(log, "ERROR", "csv_failed")
                     /\ Exit(1)
                     /\ UNCHANGED <<srcState, pos, cur, srcOut, calls>>
                ELSE IF Len(row) < 2
                THEN /\ log' = Emit(log, "WARNING", "insufficient_columns")
                     /\ pos' = pos + 1
                     /\ UNCHANGED <<srcState, pc, cur, exitStatus, raised, srcOut, calls>>
                ELSE /\ calls' = Append(calls, Call(Str(row[1]), Str(row[2]), res))
                     /\ pos' = pos + 1
                     /\ IF res.out = NoRecord
                        THEN /\ log' = Emit(log, "WARNING", "invalid_row")
                             /\ UNCHANGED <<pc, cur, srcOut>>
                        ELSE /\ cur' = res.out
                             /\ srcOut' = Append(srcOut, res.out)
                             /\ pc' = "dd_got"
                             /\ UNCHANGED log
                     /\ UNCHANGED <<srcState, exitStatus, raised>>
    /\ UNCHANGED <<inputs, stream, encoding, items, seen, dups, count, total, data,
                   stdout, uncaught, requests>>

\* ---------------------------------------------------------------- stream_json
\* The schema check on the first item: a dict lacking either configured key.
FormatDrift(its, ks) ==
    /\ Len(its) > 0
    /\ its[1].ty = "dict"
    /\ (~HasKey(its[1], ks[1]) \/ ~HasKey(its[1], ks[2]))

\* open, json.load, the empty-list warning and the drift check.  Every
\* exception is caught inside stream_json, logged at error level and
\* turned into sys.exit(1).
Json_Load ==
    /\ SourceRuns /\ stream = "json" /\ srcState = "unstarted"
    /\ IF fileStatus # "ok"
       THEN /\ raised' = (IF fileStatus = "missing" THEN "FileNotFoundError"
                          ELSE "PermissionError")
            /\ log' = Emit(log, "ERROR", "json_unexpected")
            /\ Exit(1)
            /\ UNCHANGED <<srcState, items>>
       ELSE IF jsonDoc.top = "undecodable"
       THEN /\ raised' = "UnicodeDecodeError"
            /\ log' = Emit(log, "ERROR", "json_unexpected")
            /\ Exit(1)
            /\ UNCHANGED <<srcState, items>>
       ELSE IF jsonDoc.top = "malformed"
       THEN /\ raised' = "JSONDecodeError"
            /\ log' = Emit(log, "ERROR", "json_invalid")
            /\ Exit(1)
            /\ UNCHANGED <<srcState, items>>
       ELSE LET its == IF jsonDoc.top = "list" THEN jsonDoc.items ELSE << >>
                lg1 == IF Len(its) = 0 THEN Emit(log, "WARNING", "json_no_list") ELSE log
            IN  /\ items' = its
                /\ log' = (IF FormatDrift(its, keys)
                           THEN Emit(lg1, "CRITICAL", "format_drift") ELSE lg1)
                /\ srcState' = "rows"
                /\ UNCHANGED <<pc, exitStatus, raised>>
    /\ UNCHANGED <<inputs, stream, encoding, pos, cur, seen, dups, count, total,
                   data, stdout, uncaught, srcOut, calls, requests>>

\* One turn of for index, item in enumerate(items).
Json_Item ==
    /\ SourceRuns /\ stream = "json" /\ srcState = "rows"
    /\ IF pos >= Len(items)
       THEN /\ srcState' = "done"
            /\ pc' = "dd_end"
            /\ UNCHANGED <<pos, cur, log, exitStatus, raised, srcOut, calls>>
       ELSE LET item == items[pos + 1]
                r == IF item.ty = "dict" THEN Get(item, keys[1]) ELSE item.vals[1]
                p == IF item.ty = "dict" THEN Get(item, keys[2]) ELSE item.vals[2]
                res == validate_record(r, p)
            IN  IF item.ty = "dict" \/ (item.ty = "list" /\ Len(item.vals) >= 2)
                THEN /\ calls' = Append(calls, Call(r, p, res))
                     /\ UNCHANGED srcState
                     /\ IF res.raised # "none"
                        THEN /\ raised' = res.raised
                             /\ log' = Emit(log, "ERROR", "json_unexpected")
                             /\ Exit(1)
                             /\ UNCHANGED <<pos, cur, srcOut>>
                        ELSE IF res.out = NoRecord
                        THEN /\ log' = Emit(log, "WARNING", "invalid_row")
                             /\ pos' = pos + 1
                             /\ UNCHANGED <<pc, cur, srcOut, exitStatus, raised>>
                        ELSE /\ cur' = res.out
                             /\ srcOut' = Append(srcOut, res.out)
                             /\ pos' = pos + 1
                             /\ pc' = "dd_got"
                             /\ UNCHANGED <<log, exitStatus, raised>>
                ELSE /\ pos' = pos + 1
                     /\ UNCHANGED <<srcState, pc, cur, log, exitStatus, raised, srcOut,
                                    calls>>
    /\ UNCHANGED <<inputs, stream, encoding, items, seen, dups, count, total, data,
                   stdout, uncaught, requests>>

\* ---------------------------------------------------------------- plain script
\* validate_financial_data of the plain script: as validate_record, but a
\* revenue equal to zero is refused with a warning.
validate_financial_data(revenue, profit) ==
    LET rev == PyFloat(revenue)
        prof == PyFloat(profit)
        first == IF rev.err # "none" THEN rev.err ELSE prof.err
    IN  IF first = "none"
        THEN IF FloatEq(rev.val, Fin(0)) THEN Result(NoRecord, TRUE, "none")
             ELSE Result(FinancialRecord(rev.val, prof.val), FALSE, "none")
        ELSE IF first \in {"ValueError", "TypeError"} THEN Result(NoRecord, TRUE, "none")
        ELSE Result(NoRecord, FALSE, first)

\* What a loader has built so far: the list, the validator calls, the
\* lines written to stderr and the exception that stopped it.
Acc(d, c, lg, err) == [data |-> d, calls |-> c, log |-> lg, err |-> err]

\* One validator call of a loader, folded into the accumulator.
Validated(acc, r, p) ==
    LET res == validate_financial_data(r, p)
    IN  IF res.raised # "none" THEN [acc EXCEPT !.err = res.raised,
                                                !.calls = Append(@, Call(r, p, res))]
        ELSE Acc(IF res.out = NoRecord THEN acc.data ELSE Append(acc.data, res.out),
                 Append(acc.calls, Call(r, p, res)),
                 IF res.diag THEN Append(acc.log, Diag("STDERR", "invalid_data")) ELSE acc.log,
                 "none")

\* load_data_from_csv's loop over the rows after the header; the file is
\* always decoded as UTF-8.
RECURSIVE CsvLoop(_, _, _, _)
CsvLoop(rows, bad, i, acc) ==
    IF acc.err # "none" \/ i > Len(rows) THEN acc
    ELSE IF bad # 0 /\ Chunk(i) = Chunk(bad)
    THEN [acc EXCEPT !.err = "UnicodeDecodeError"]
    ELSE IF Len(rows[i]) >= 2
    THEN CsvLoop(rows, bad, i + 1, Validated(acc, Str(rows[i][1]), Str(rows[i][2])))
    ELSE CsvLoop(rows, bad, i + 1, acc)

\* load_data_from_json's loop over the items, with the fixed keys.
RECURSIVE JsonLoop(_, _, _)
JsonLoop(its, i, acc) ==
    IF acc.err # "none" \/ i > Len(its) THEN acc
    ELSE IF its[i].ty = "dict"
    THEN JsonLoop(its, i + 1, Validated(acc, Get(its[i], "revenue"), Get(its[i], "profit")))
    ELSE IF its[i].ty = "list" /\ Len(its[i].vals) >= 2
    THEN JsonLoop(its, i + 1, Validated(acc, its[i].vals[1], its[i].vals[2]))
    ELSE JsonLoop(its, i + 1, acc)

\* load_data_from_csv: any exception prints an error and returns [].
load_data_from_csv ==
    IF fileStatus # "ok"
    THEN Acc(<< >>, << >>, << >>,
             IF fileStatus = "missing" THEN "FileNotFoundError" ELSE "PermissionError")
    ELSE IF badRow # 0 /\ Chunk(badRow) = 0
    THEN Acc(<< >>, << >>, << >>, "UnicodeDecodeError")
    ELSE CsvLoop(csvRows, badRow, 2, Acc(<< >>, << >>, << >>, "none"))

\* load_data_from_json: any exception prints an error and returns [].
load_data_from_json ==
    IF fileStatus # "ok"
    THEN Acc(<< >>, << >>, << >>,
             IF fileStatus = "missing" THEN "FileNotFoundError" ELSE "PermissionError")
    ELSE IF jsonDoc.top = "undecodable" THEN Acc(<< >>, << >>, << >>, "UnicodeDecodeError")
    ELSE IF jsonDoc.top = "malformed" THEN Acc(<< >>, << >>, << >>, "JSONDecodeError")
    ELSE JsonLoop(IF jsonDoc.top = "list" THEN jsonDoc.items ELSE << >>, 1,
                  Acc(<< >>, << >>, << >>, "none"))

\* load_data_from_hardcoded
load_data_from_hardcoded ==
    << FinancialRecord(Fin(1000), Fin(10)), FinancialRecord(Fin(2000), Fin(17)),
       FinancialRecord(Fin(2500), Fin(170)), FinancialRecord(Fin(2500), Fin(0 - 170)) >>

\* main of the plain script up to the choice of loader.  An unsupported
\* extension prints a message to standard output and returns.
Plain_Select ==
    /\ pc = "main" /\ variant = "plain"
    /\ IF path = PathEmpty
       THEN data' = load_data_from_hardcoded /\ pc' = "p_print"
            /\ UNCHANGED <<stdout, exitStatus>>
       ELSE IF EndsWith(path, DotCsv)
       THEN pc' = "p_csv" /\ UNCHANGED <<data, stdout, exitStatus>>
       ELSE IF EndsWith(path, DotJson)
       THEN pc' = "p_json" /\ UNCHANGED <<data, stdout, exitStatus>>
       ELSE /\ stdout' = Append(stdout, TextLine("must_be_csv_or_json"))
            /\ Exit(0)
            /\ UNCHANGED data
    /\ UNCHANGED <<inputs, stream, srcState, encoding, items, pos, cur, seen, dups,
                   count, total, log, raised, uncaught, srcOut, calls, requests>>

\* The loader's result enters the state: the list (empty after an
\* exception), the diagnostics and the validator calls made on the way.
Loaded(acc) ==
    /\ data' = (IF acc.err = "none" THEN acc.data ELSE << >>)
    /\ calls' = acc.calls
    /\ log' = (IF acc.err = "none" THEN acc.log
               ELSE Append(acc.log, Diag("STDERR", "read_error")))
    /\ raised' = acc.err
    /\ pos' = Len(acc.calls)
    /\ pc' = "p_print"

Plain_LoadCsv ==
    /\ pc = "p_csv"
    /\ Loaded(load_data_from_csv)
    /\ UNCHANGED <<inputs, stream, srcState, encoding, items, cur, seen, dups, count,
                   total, stdout, exitStatus, uncaught, srcOut, requests>>

Plain_LoadJson ==
    /\ pc = "p_json"
    /\ Loaded(load_data_from_json)
    /\ UNCHANGED <<inputs, stream, srcState, encoding, items, cur, seen, dups, count,
                   total, stdout, exitStatus, uncaught, srcOut, requests>>

\* The printed rows of format_and_print_table; a ZeroDivisionError prints N/A.
RowLines(d) == [i \in 1..Len(d) |-> Line("row", d[i], Margin(d[i]), 0, FALSE)]

\* format_and_print_table, then main returns.
Plain_Print ==
    /\ pc = "p_print"
    /\ stdout' = (IF Len(data) = 0 THEN Append(stdout, TextLine("no_valid_data"))
                  ELSE stdout \o <<TextLine("header"), TextLine("rule")>> \o RowLines(data))
    /\ Exit(0)
    /\ UNCHANGED <<inputs, stream, srcState, encoding, items, pos, cur, seen, dups,
                   count, total, data, log, raised, uncaught, srcOut, calls, requests>>

Next ==
    \/ Main_Select
    \/ Main_Banner
    \/ FT_Header
    \/ FT_Next
    \/ FT_Got
    \/ FT_End
    \/ DD_Pull
    \/ DD_Got
    \/ DD_End
    \/ Csv_Detect
    \/ Csv_Open
    \/ Csv_Row
    \/ Json_Load
    \/ Json_Item
    \/ Plain_Select
    \/ Plain_LoadCsv
    \/ Plain_LoadJson
    \/ Plain_Print

Spec == Init /\ [][Next]_vars

\* ================================================================ properties
Enterprise == variant = "enterprise"
CsvRun == Enterprise /\ stream = "csv"
JsonRun == Enterprise /\ stream = "json"
Exited == pc = "exited"

\* The records of the printed rows, in order.
RECURSIVE RowsOf(_)
RowsOf(out) ==
    IF Len(out) = 0 THEN << >>
    ELSE IF out[1].kind = "row" THEN <<out[1].rec>> \o RowsOf(Tail(out))
    ELSE RowsOf(Tail(out))

\* What pipeline_dedupe has taken from the source and what it has yielded.
DedupeIn == IF pc = "dd_got" THEN SubSeq(srcOut, 1, Len(srcOut) - 1) ELSE srcOut
DedupeOut == RowsOf(stdout) \o (IF pc = "ft_got" THEN <<cur>> ELSE << >>)

\* The subsequence of S of the records equal to no earlier record of S.
RECURSIVE FirstOccurrences(_, _)
FirstOccurrences(S, n) ==
    IF n = 0 THEN << >>
    ELSE IF \E j \in 1..(n - 1) : RecEq(S[j], S[n]) THEN FirstOccurrences(S, n - 1)
    ELSE Append(FirstOccurrences(S, n - 1), S[n])

\* C1: at every point of a run, what pipeline_dedupe has yielded is the
\* subsequence of first occurrences, under the records' equality, of what
\* it has taken from the source, in the source's order.
C1_DedupeFirstOccurrences ==
    Enterprise => DedupeOut = FirstOccurrences(DedupeIn, Len(DedupeIn))

\* C1 witness: a finished run whose source yielded a record, a different
\* one, then the first again; two rows were printed.
C1_Witness ==
    /\ Enterprise /\ Exited /\ exitStatus = 0
    /\ Len(srcOut) = 3
    /\ RecEq(srcOut[1], srcOut[3]) /\ ~RecEq(srcOut[1], srcOut[2])
    /\ dups = 1 /\ Len(RowsOf(stdout)) = 2

\* A raw value that float() turns into a finite number.
ParsesFinite(x) == PyFloat(x).err = "none" /\ PyFloat(x).val.k = "fin"
Finite(rec) == rec.revenue.k = "fin" /\ rec.profit.k = "fin"

\* C2: every call of validate_record returns a record exactly when both
\* raw values parse as finite numbers, the record holding those numbers;
\* every other call returns None with a diagnostic and raises nothing; so
\* every record the source yields has finite fields.
C2_ValidateFiniteOnly ==
    Enterprise =>
      /\ \A i \in 1..Len(calls) :
           LET c == calls[i]
           IN  IF ParsesFinite(c.rev) /\ ParsesFinite(c.prof)
               THEN c.out = FinancialRecord(PyFloat(c.rev).val, PyFloat(c.prof).val)
               ELSE c.out = NoRecord /\ c.diag /\ c.raised = "none"
      /\ \A i \in 1..Len(srcOut) : Finite(srcOut[i])

\* The records stream_csv owes for rows 2..n of the file: one for each row
\* of at least two columns whose first two cells validate.
RECURSIVE CsvExpected(_, _)
CsvExpected(rows, n) ==
    IF n <= 1 THEN << >>
    ELSE LET row == rows[n]
             rest == CsvExpected(rows, n - 1)
         IN  IF Len(row) >= 2
                /\ validate_record(Str(row[1]), Str(row[2])).out # NoRecord
             THEN Append(rest, validate_record(Str(row[1]), Str(row[2])).out)
             ELSE rest

ShortRows(rows, n) == { i \in 2..n : Len(rows[i]) < 2 }
DiagCount(msg) == Cardinality({ i \in 1..Len(log) : log[i].msg = msg })

\* C3: in a CSV run, once the header is read, the records stream_csv has
\* yielded are, in file order, those of the valid rows among the rows it
\* has consumed after the first; each short row consumed left one
\* diagnostic; and a run that ends normally has consumed every row.
C3_CsvYieldsValidRows ==
    (CsvRun /\ srcState \in {"rows", "done"}) =>
      /\ srcOut = CsvExpected(csvRows, pos)
      /\ DiagCount("insufficient_columns") = Cardinality(ShortRows(csvRows, pos))
      /\ (srcState = "done" => pos = Len(csvRows))

\* C3 witness: a finished run over a first row that reads as data, a short
\* row and then a valid row, which alone is yielded.
C3_Witness ==
    /\ CsvRun /\ Exited /\ exitStatus = 0
    /\ Len(csvRows) = 3
    /\ csvRows[1] = <<"10", "1">>
    /\ Len(csvRows[2]) < 2
    /\ csvRows[3] = <<"0", "5">>
    /\ srcOut = <<FinancialRecord(Fin(0), Fin(5))>>
    /\ DiagCount("insufficient_columns") = 1

IoErrors == {"FileNotFoundError", "PermissionError", "UnicodeDecodeError"}
ErrorLogged == \E i \in 1..Len(log) : log[i].level = "ERROR"

\* C4: whenever the CSV reader meets an I/O failure, at the probe or
\* later, an error diagnostic is logged, the process ends with a non-zero
\* status and the exception does not reach the top level.
C4_CsvIoFailureLogged ==
    (CsvRun /\ raised \in IoErrors) => (ErrorLogged /\ exitStatus # 0 /\ ~uncaught)

\* C5: a run of the enterprise script that ended with a non-zero status
\* has written nothing to standard output.
C5_NoPartialReport ==
    (Enterprise /\ Exited /\ exitStatus # 0) => stdout = << >>

Supported(p) == EndsWith(p, DotCsv) \/ EndsWith(p, DotJson)

\* C6: a run given a path ending neither in ".csv" nor in ".json" ends with
\* a non-zero status, starts no reader and produces no record; a ".csv"
\* path is read by the CSV reader and a ".json" path by the JSON reader.
C6_UnsupportedIsFatal ==
    /\ (~Supported(path) /\ (Enterprise \/ path # PathEmpty) /\ Exited) =>
         (exitStatus # 0 /\ stream = "none" /\ calls = << >> /\ RowsOf(stdout) = << >>)
    /\ (Enterprise /\ stream # "none") =>
         (stream = "csv" <=> EndsWith(path, DotCsv))
    /\ (pc = "p_csv" => EndsWith(path, DotCsv))
    /\ (pc = "p_json" => EndsWith(path, DotJson))

\* C7: every validator call whose revenue parses to zero and whose profit
\* parses returns a record, and that record's margin is undefined; every
\* printed row shows an undefined margin exactly when its revenue is zero.
C7_ZeroRevenueAccepted ==
    /\ \A i \in 1..Len(calls) :
         LET c == calls[i]
         IN  (PyFloat(c.rev) = Ok(Fin(0)) /\ PyFloat(c.prof).err = "none") =>
               (c.out # NoRecord /\ ~Margin(c.out).def)
    /\ \A i \in 1..Len(stdout) :
         stdout[i].kind = "row" =>
           (~stdout[i].margin.def <=> stdout[i].rec.revenue = Fin(0))

\* C8: once detect_encoding has returned, the full read of stream_csv
\* raises no decode error.
C8_NoDecodeErrorAfterProbe ==
    (CsvRun /\ encoding # "none") => raised # "UnicodeDecodeError"

\* The records stream_json owes for items 1..n.
RECURSIVE JsonExpected(_, _, _)
JsonExpected(its, ks, n) ==
    IF n = 0 THEN << >>
    ELSE LET item == its[n]
             rest == JsonExpected(its, ks, n - 1)
             r == IF item.ty = "dict" THEN Get(item, ks[1]) ELSE item.vals[1]
             p == IF item.ty = "dict" THEN Get(item, ks[2]) ELSE item.vals[2]
         IN  IF (item.ty = "dict" \/ (item.ty = "list" /\ Len(item.vals) >= 2))
                /\ PyFloat(r).err = "none" /\ PyFloat(p).err = "none"
             THEN Append(rest, FinancialRecord(PyFloat(r).val, PyFloat(p).val))
             ELSE rest

\* C9: when the first item of the list is an object lacking a configured
\* key, stream_json logs one critical diagnostic and does not end the run:
\* it consumes every item in order, the records it has yielded being those
\* of the valid items consumed, and the run ends with status 0.
C9_DriftDoesNotAbort ==
    (JsonRun /\ srcState \in {"rows", "done"} /\ FormatDrift(items, keys)) =>
      /\ Cardinality({ i \in 1..Len(log) : log[i].level = "CRITICAL" }) = 1
      /\ srcOut = JsonExpected(items, keys, pos)
      /\ (Exited => (exitStatus = 0 /\ pos = Len(items)))

\* C10: in a CSV run the source consumes rows only on demand.  Before the
\* first request nothing is read; every request but the pending one has
\* been answered by a printed row; every record the source yielded is
\* printed, counted as a duplicate or the single one in flight; every
\* record in flight or remembered by the filter is accounted for likewise;
\* and while a record is in flight or just printed, the last row consumed
\* is the row that produced it.
Pending == IF pc \in {"dd_pull", "src", "dd_got", "ft_got"} THEN 1 ELSE 0
InFlight == IF pc \in {"dd_got", "ft_got"} THEN 1 ELSE 0
C10_PullDriven ==
    (CsvRun /\ ~Exited) =>
      /\ (requests = 0 => (pos = 0 /\ srcState = "unstarted" /\ encoding = "none"))
      /\ requests = count + Pending + (IF pc \in {"dd_end", "ft_end"} THEN 1 ELSE 0)
      /\ Len(srcOut) = count + dups + InFlight
      /\ Len(seen) = count + (IF pc = "ft_got" THEN 1 ELSE 0)
      /\ (cur # NoRecord <=> InFlight = 1)
      /\ ((pc \in {"dd_got", "ft_got", "ft_next"} /\ Len(srcOut) > 0) =>
            /\ Len(csvRows[pos]) >= 2
            /\ validate_record(Str(csvRows[pos][1]), Str(csvRows[pos][2])).out
                 = srcOut[Len(srcOut)])

\* C10 witness: format_table is printing the first record while the file
\* still holds a row the source has not consumed.
C10_Witness ==
    /\ CsvRun /\ pc = "ft_got"
    /\ count = 0 /\ requests = 1
    /\ pos = 2 /\ Len(csvRows) = 3
    /\ Len(srcOut) = 1

====
